---- MODULE Spec2Model ----
(***************************************************************************)
(* Line breaking of PyFPDF (fpdf/line_break.py): the per-line accumulator  *)
(* CurrentLine and the driver MultiLineBreak, as a state machine whose     *)
(* single operation is one call of get_line_of_given_width.                *)
(*                                                                         *)
(* Characters are tokens; a text is a sequence of tokens.  Indices into    *)
(* runs and characters are 0-based as in the source; TLA+ sequences are    *)
(* 1-based, so element i of the source is s[i + 1] here.                   *)
(***************************************************************************)
EXTENDS Integers, Sequences, FiniteSets, TLC

\* ---------------------------------------------------------------- bounds
\* total number of characters over all runs of an input
MaxLen == 3
\* number of runs (styled text fragments) of an input
MaxRuns == 2
\* largest maximum_width a call is made with
MaxWidth == 2

\* the most rows a table is given, and the most columns a row is given
MaxRows == 3
MaxCols == 3

\* ------------------------------------------------------- sentinel tokens
SOFT_HYPHEN == "SHY"
HYPHEN == "-"
SPACE == " "
NEWLINE == "NL"

\* the characters an input run is made of: a letter and the sentinels
Alphabet == {"a", SPACE, NEWLINE, SOFT_HYPHEN}

\* maximum_width values a caller passes (a negative width included)
Widths == (0 - 1)..MaxWidth

\* -------------------------------------------------------------- styles
Regular ==
  [font_family |-> "helvetica", font_size_pt |-> 12, font_style |-> "",
   underline |-> FALSE, font_stretching |-> 100]
Bold ==
  [font_family |-> "helvetica", font_size_pt |-> 12, font_style |-> "B",
   underline |-> FALSE, font_stretching |-> 100]
Times ==
  [font_family |-> "times", font_size_pt |-> 12, font_style |-> "",
   underline |-> FALSE, font_stretching |-> 100]
Styles == {Regular, Bold, Times}

\* Fragment.__init__: five style attributes and the characters
Fragment(st, characters) ==
  [font_family |-> st.font_family, font_size_pt |-> st.font_size_pt,
   font_style |-> st.font_style, underline |-> st.underline,
   font_stretching |-> st.font_stretching, characters |-> characters]

\* the five style attributes of a fragment
StyleOf(fragment) ==
  [font_family |-> fragment.font_family, font_size_pt |-> fragment.font_size_pt,
   font_style |-> fragment.font_style, underline |-> fragment.underline,
   font_stretching |-> fragment.font_stretching]

\* Fragment.trim
trim(fragment, index) ==
  [fragment EXCEPT !.characters = SubSeq(fragment.characters, 1, index)]

\* ------------------------------------------------ the host's width tables
\* size_by_style(character, style) is supplied by the caller.  Two tables:
\* "unit" gives every character width 1 (the tests' uniform alphabets);
\* "mixed" gives the letter "a" width 2, or 0 in bold (a zero-width glyph),
\* the hyphen width 1, or 2 in bold, and the space width 1.
WidthTables == {"unit", "mixed"}

SizeOf(table, character, style) ==
  IF table = "unit" THEN 1
  ELSE IF character = "a" THEN (IF style = "B" THEN 0 ELSE 2)
  ELSE IF character = HYPHEN THEN (IF style = "B" THEN 2 ELSE 1)
  ELSE 1

VARIABLES
  styled_text_fragments,   \* MultiLineBreak.styled_text_fragments
  size_by_style,           \* MultiLineBreak.size_by_style (a table name)
  justify,                 \* MultiLineBreak.justify
  print_sh,                \* MultiLineBreak.print_sh
  fragment_index,          \* MultiLineBreak.fragment_index
  character_index,         \* MultiLineBreak.character_index
  char_index_for_last_forced_manual_break,  \* -1 stands for None
  last,                    \* outcome of the latest call
  prev,                    \* summary of the call before it
  returned_text            \* text of the lines returned so far

\* the table engine (fpdf/table.py)
VARIABLES
  table,                   \* the Table object: its options and its rows
  pdf,                     \* the FPDF instance the table was created on
  raised,                  \* the exception that ended the latest call, if any
  rendering                \* what Table.render() did: commits, drawn cells

line_break_vars ==
  <<styled_text_fragments, size_by_style, justify, print_sh, fragment_index,
    character_index, char_index_for_last_forced_manual_break, last, prev,
    returned_text>>

table_vars == <<table, pdf, raised, rendering>>

vars == <<line_break_vars, table_vars>>

\* ------------------------------------------------------------ CurrentLine
NoHint == [kind |-> "None"]

SpaceHint(ofi, oci, clfi, clci, width, number_of_spaces) ==
  [kind |-> "space",
   original_fragment_index |-> ofi, original_character_index |-> oci,
   current_line_fragment_index |-> clfi, current_line_character_index |-> clci,
   width |-> width, number_of_spaces |-> number_of_spaces]

HyphenHint(ofi, oci, clfi, clci, width, number_of_spaces, curchar, curchar_width, st) ==
  [kind |-> "hyphen",
   original_fragment_index |-> ofi, original_character_index |-> oci,
   current_line_fragment_index |-> clfi, current_line_character_index |-> clci,
   width |-> width, number_of_spaces |-> number_of_spaces,
   curchar |-> curchar, curchar_width |-> curchar_width, curchar_style |-> st]

\* CurrentLine.__init__
CurrentLine(psh) ==
  [print_sh |-> psh, fragments |-> <<>>, width |-> 0, number_of_spaces |-> 0,
   space_break_hint |-> NoHint, hyphen_break_hint |-> NoHint]

\* the test that decides whether add_character opens a new fragment
NewFragmentNeeded(st, lastFragment) ==
  \/ st.font_style # lastFragment.font_style
  \/ st.underline # lastFragment.underline

\* a variant of KeepsCharacter that appends soft hyphens like any character
KeepsCharacter_Always(character, psh) == TRUE

\* the test that decides whether add_character appends the character to the
\* line and counts its width
KeepsCharacter(character, psh) == character # SOFT_HYPHEN \/ psh

\* CurrentLine.add_character
add_character(line, character, character_width, st, original_fragment_index, original_character_index) ==
  LET fragments1 ==
        IF line.fragments = <<>> THEN <<Fragment(st, <<>>)>>
        ELSE IF NewFragmentNeeded(st, line.fragments[Len(line.fragments)])
             THEN Append(line.fragments, Fragment(st, <<>>))
             ELSE line.fragments
      n == Len(fragments1)
      active_fragment == fragments1[n]
      isSpace == character = SPACE
      isHint == ~isSpace /\ character = SOFT_HYPHEN /\ ~line.print_sh
      kept == KeepsCharacter(character, line.print_sh)
  IN  [print_sh |-> line.print_sh,
       fragments |->
         IF kept
         THEN [fragments1 EXCEPT ![n].characters = Append(@, character)]
         ELSE fragments1,
       width |-> IF kept THEN line.width + character_width ELSE line.width,
       number_of_spaces |->
         IF isSpace THEN line.number_of_spaces + 1 ELSE line.number_of_spaces,
       space_break_hint |->
         IF isSpace
         THEN SpaceHint(original_fragment_index, original_character_index,
                        n, Len(active_fragment.characters),
                        line.width, line.number_of_spaces)
         ELSE line.space_break_hint,
       hyphen_break_hint |->
         IF isHint
         THEN HyphenHint(original_fragment_index, original_character_index,
                         n, Len(active_fragment.characters),
                         line.width, line.number_of_spaces,
                         HYPHEN, character_width, st)
         ELSE line.hyphen_break_hint]

\* a variant of apply_automatic_hint that restores the fragments and the
\* width but keeps the number of spaces counted since
apply_automatic_hint_keeps_spaces(line, break_hint) ==
  LET cut == SubSeq(line.fragments, 1, break_hint.current_line_fragment_index)
      k == Len(cut)
  IN  [line EXCEPT
         !.fragments =
           IF k > 0
           THEN [cut EXCEPT ![k] = trim(@, break_hint.current_line_character_index)]
           ELSE cut,
         !.width = break_hint.width]

\* CurrentLine._apply_automatic_hint
apply_automatic_hint(line, break_hint) ==
  LET cut == SubSeq(line.fragments, 1, break_hint.current_line_fragment_index)
      k == Len(cut)
  IN  [line EXCEPT
         !.fragments =
           IF k > 0
           THEN [cut EXCEPT ![k] = trim(@, break_hint.current_line_character_index)]
           ELSE cut,
         !.number_of_spaces = break_hint.number_of_spaces,
         !.width = break_hint.width]

\* a variant of manual_break that justifies whenever asked to
manual_break_unconditional(line, justify_arg, trailing_nl) ==
  [fragments |-> line.fragments,
   text_width |-> line.width,
   number_of_spaces_between_words |-> line.number_of_spaces,
   justify |-> justify_arg,
   trailing_nl |-> trailing_nl]

\* CurrentLine.manual_break
manual_break(line, justify_arg, trailing_nl) ==
  [fragments |-> line.fragments,
   text_width |-> line.width,
   number_of_spaces_between_words |-> line.number_of_spaces,
   justify |-> (line.number_of_spaces > 0) /\ justify_arg,
   trailing_nl |-> trailing_nl]

\* CurrentLine.automatic_break_possible
automatic_break_possible(line) ==
  line.hyphen_break_hint # NoHint \/ line.space_break_hint # NoHint

\* a variant of HyphenHintChosen that also prefers the hyphen hint on a tie
HyphenHintChosen_NotStrict(line) ==
  /\ line.hyphen_break_hint # NoHint
  /\ \/ line.space_break_hint = NoHint
     \/ line.hyphen_break_hint.width >= line.space_break_hint.width

\* the condition under which automatic_break cuts at the hyphen hint
HyphenHintChosen(line) ==
  /\ line.hyphen_break_hint # NoHint
  /\ \/ line.space_break_hint = NoHint
     \/ line.hyphen_break_hint.width > line.space_break_hint.width

\* CurrentLine.automatic_break: (fragment index, character index, line)
automatic_break(line, justify_arg) ==
  IF HyphenHintChosen(line)
  THEN LET h == line.hyphen_break_hint
           restored == apply_automatic_hint(line, h)
           withHyphen ==
             add_character(restored, h.curchar, h.curchar_width, h.curchar_style,
                           h.original_fragment_index, h.original_character_index)
       IN  [hint |-> "hyphen",
            fragment_index |-> h.original_fragment_index,
            character_index |-> h.original_character_index,
            line |-> manual_break(withHyphen, justify_arg, FALSE)]
  ELSE LET s == line.space_break_hint
           restored == apply_automatic_hint(line, s)
       IN  [hint |-> "space",
            fragment_index |-> s.original_fragment_index,
            character_index |-> s.original_character_index,
            line |-> manual_break(restored, justify_arg, FALSE)]

\* ---------------------------------------------------------- MultiLineBreak
\* MultiLineBreak._get_character_width
get_character_width(character, style) ==
  SizeOf(size_by_style,
         IF character = SOFT_HYPHEN /\ ~print_sh THEN HYPHEN ELSE character,
         style)

\* the result of a call that returns None or raises
NoLine == [none |-> TRUE]

\* what a call of get_line_of_given_width leaves behind: how it ended
\* (kind), the cursor, the forced-break marker, the returned value, and the
\* CurrentLine as it stood when the call ended (before any rollback)
Outcome(kind, fi, ci, forced, line, current_line) ==
  [kind |-> kind, fragment_index |-> fi, character_index |-> ci,
   forced |-> forced, line |-> line, current_line |-> current_line]

\* a variant of Overflows that forgets the width of the incoming character
Overflows_IgnoringCharacter(current_line, character_width, maximum_width) ==
  current_line.width > maximum_width

\* the overflow test of get_line_of_given_width
Overflows(current_line, character_width, maximum_width) ==
  current_line.width + character_width > maximum_width

\* a variant of on_newline that passes the driver's justify flag on
on_newline_justified(fi, ci, current_line) ==
  Outcome("newline", fi, ci + 1, 0 - 1,
          manual_break(current_line, justify, TRUE), current_line)

\* the newline branch: end the line here, step over the newline
on_newline(fi, ci, current_line) ==
  Outcome("newline", fi, ci + 1, 0 - 1,
          manual_break(current_line, FALSE, TRUE), current_line)

\* the branch taken when a space overflows: end the line, step over the space
on_space_overflow(fi, ci, current_line) ==
  Outcome("space", fi, ci + 1, 0 - 1,
          manual_break(current_line, justify, FALSE), current_line)

\* a variant of on_automatic_break that resumes at the hint's position in
\* the line being built instead of its position in the source runs
on_automatic_break_in_line(current_line) ==
  LET ab == automatic_break(current_line, justify)
      hint == IF ab.hint = "hyphen" THEN current_line.hyphen_break_hint
              ELSE current_line.space_break_hint
  IN
  Outcome(IF ab.hint = "hyphen" THEN "auto_hyphen" ELSE "auto_space",
          hint.current_line_fragment_index - 1,
          hint.current_line_character_index + 1, 0 - 1,
          ab.line, current_line)

\* the branch taken when a break hint exists: roll back to the hint and
\* resume one character after it
on_automatic_break(current_line) ==
  LET ab == automatic_break(current_line, justify) IN
  Outcome(IF ab.hint = "hyphen" THEN "auto_hyphen" ELSE "auto_space",
          ab.fragment_index, ab.character_index + 1, 0 - 1,
          ab.line, current_line)

\* a variant of SecondFailure that never detects the repetition
SecondFailure_Never(last_forced, ci) == FALSE

\* the test for a second consecutive failure at the same position
SecondFailure(last_forced, ci) == last_forced = ci

\* the last branch of an overflow (wordsplit is True here): raise on a second
\* consecutive failure, otherwise record the position and return the line
on_forced_break(fi, ci, current_line, last_forced) ==
  IF SecondFailure(last_forced, ci)
  THEN Outcome("raise", fi, ci, 0 - 1, NoLine, current_line)
  ELSE Outcome("forced", fi, ci, ci,
               manual_break(current_line, FALSE, FALSE), current_line)

\* a variant of after_loop that rolls the cursor back whenever it has no
\* line to return
after_loop_rollback(line_full, wordsplit, fi, ci, current_line, start_fi, start_ci) ==
  IF line_full /\ ~wordsplit
  THEN Outcome("line_full", start_fi, start_ci, 0 - 1,
               manual_break(CurrentLine(FALSE), justify, FALSE), current_line)
  ELSE IF current_line.width # 0
  THEN Outcome("exhausted", fi, ci, 0 - 1,
               manual_break(current_line, FALSE, FALSE), current_line)
  ELSE Outcome("none", start_fi, start_ci, 0 - 1, NoLine, current_line)

\* a variant of after_loop that leaves the cursor on the overflowing
\* character when the line is full and wordsplit is off
after_loop_keeps_cursor(line_full, wordsplit, fi, ci, current_line, start_fi, start_ci) ==
  IF line_full /\ ~wordsplit
  THEN Outcome("line_full", fi, ci, 0 - 1,
               manual_break(CurrentLine(FALSE), justify, FALSE), current_line)
  ELSE IF current_line.width # 0
  THEN Outcome("exhausted", fi, ci, 0 - 1,
               manual_break(current_line, FALSE, FALSE), current_line)
  ELSE Outcome("none", fi, ci, 0 - 1, NoLine, current_line)

\* the statements after the while loop
after_loop(line_full, wordsplit, fi, ci, current_line, start_fi, start_ci) ==
  IF line_full /\ ~wordsplit
  THEN Outcome("line_full", start_fi, start_ci, 0 - 1,
               manual_break(CurrentLine(FALSE), justify, FALSE), current_line)
  ELSE IF current_line.width # 0
  THEN Outcome("exhausted", fi, ci, 0 - 1,
               manual_break(current_line, FALSE, FALSE), current_line)
  ELSE Outcome("none", fi, ci, 0 - 1, NoLine, current_line)

\* the while loop of get_line_of_given_width.  (fi, ci) is
\* self.fragment_index, self.character_index; last_forced is the local
\* char_index_for_last_forced_manual_break; (start_fi, start_ci) are
\* last_fragment_index, last_character_index.
RECURSIVE get_line_loop(_, _, _, _, _, _, _, _)
get_line_loop(fi, ci, current_line, maximum_width, wordsplit, last_forced, start_fi, start_ci) ==
  IF fi >= Len(styled_text_fragments)
  THEN after_loop(FALSE, wordsplit, fi, ci, current_line, start_fi, start_ci)
  ELSE
    LET current_fragment == styled_text_fragments[fi + 1] IN
    IF ci >= Len(current_fragment.characters)
    THEN get_line_loop(fi + 1, 0, current_line, maximum_width, wordsplit,
                       last_forced, start_fi, start_ci)
    ELSE
      LET character == current_fragment.characters[ci + 1]
          character_width ==
            get_character_width(character, current_fragment.font_style)
      IN
      IF character = NEWLINE
      THEN on_newline(fi, ci, current_line)
      ELSE IF Overflows(current_line, character_width, maximum_width)
      THEN
        IF character = SPACE
        THEN on_space_overflow(fi, ci, current_line)
        ELSE IF automatic_break_possible(current_line)
        THEN on_automatic_break(current_line)
        ELSE IF ~wordsplit
        THEN after_loop(TRUE, wordsplit, fi, ci, current_line, start_fi, start_ci)
        ELSE on_forced_break(fi, ci, current_line, last_forced)
      ELSE get_line_loop(fi, ci + 1,
                         add_character(current_line, character, character_width,
                                       StyleOf(current_fragment), fi, ci),
                         maximum_width, wordsplit, last_forced,
                         start_fi, start_ci)

\* MultiLineBreak.get_line_of_given_width as a function of the driver's state
get_line(maximum_width, wordsplit) ==
  IF fragment_index = Len(styled_text_fragments)
  THEN Outcome("none", fragment_index, character_index, 0 - 1, NoLine,
               CurrentLine(print_sh))
  ELSE get_line_loop(fragment_index, character_index, CurrentLine(print_sh),
                     maximum_width, wordsplit,
                     char_index_for_last_forced_manual_break,
                     fragment_index, character_index)

\* ------------------------------------------------------------- bookkeeping
RECURSIVE Flatten(_)
\* the characters of a sequence of fragments, in order
Flatten(fragments) ==
  IF fragments = <<>> THEN <<>>
  ELSE Head(fragments).characters \o Flatten(Tail(fragments))

RECURSIVE Without(_, _)
\* a text with every token of a set removed
Without(text, tokens) ==
  IF text = <<>> THEN <<>>
  ELSE (IF Head(text) \in tokens THEN <<>> ELSE <<Head(text)>>)
       \o Without(Tail(text), tokens)

\* the kinds of outcome that return a TextLine
LineKinds ==
  {"newline", "space", "auto_space", "auto_hyphen", "line_full", "forced",
   "exhausted"}

\* the text of a returned line without the hyphen a hyphen break appended
LineText(o) ==
  LET t == Flatten(o.line.fragments) IN
  IF o.kind = "auto_hyphen" THEN SubSeq(t, 1, Len(t) - 1) ELSE t

\* what one call adds to returned_text: the line's own text, followed by the
\* space the break consumed when the line ended at a space
Contribution(o) ==
  IF o.kind \notin LineKinds THEN <<>>
  ELSE LineText(o) \o (IF o.kind \in {"space", "auto_space"} THEN <<SPACE>> ELSE <<>>)

\* number of characters held by a CurrentLine
Placed(current_line) == Len(Flatten(current_line.fragments))

\* ------------------------------------------------------------------ inputs
\* the ways to cut a text of n characters into k consecutive runs: the
\* nondecreasing sequences of k - 1 cut positions
Cuts(n, k) ==
  {c \in [1..(k - 1) -> 0..n] : \A i \in 1..(k - 2) : c[i] <= c[i + 1]}

\* the runs a text, its cut positions and the runs' styles make
RunsOf(text, k, c, st) ==
  [i \in 1..k |->
     Fragment(st[i],
              SubSeq(text,
                     (IF i = 1 THEN 0 ELSE c[i - 1]) + 1,
                     IF i = k THEN Len(text) ELSE c[i]))]

Inputs ==
  UNION {
    UNION {
      {RunsOf(text, k, c, st) :
         text \in [1..n -> Alphabet], c \in Cuts(n, k), st \in [1..k -> Styles]}
      : k \in (IF n = 0 THEN 0 ELSE 1)..MaxRuns}
    : n \in 0..MaxLen}

\* the print_sh settings a driver is constructed with
PrintShChoices == {FALSE}

\* the values of the table engine's variables while no table exists
NoTable == [rows |-> <<>>]
NoPdf == [page |-> 0]
NoException == [kind |-> "None"]
NotRendered == [status |-> "not rendered"]

\* ----------------------------------------------------------- state machine
\* MultiLineBreak.__init__
Init ==
  /\ styled_text_fragments \in Inputs
  /\ size_by_style \in WidthTables
  /\ justify \in BOOLEAN
  /\ print_sh \in PrintShChoices
  /\ fragment_index = 0
  /\ character_index = 0
  /\ char_index_for_last_forced_manual_break = 0 - 1
  /\ last = [kind |-> "new"]
  /\ prev = [kind |-> "new"]
  /\ returned_text = <<>>
  /\ table = NoTable
  /\ pdf = NoPdf
  /\ raised = NoException
  /\ rendering = NotRendered

\* one call of get_line_of_given_width(maximum_width, wordsplit)
get_line_of_given_width(maximum_width, wordsplit) ==
  \E o \in {get_line(maximum_width, wordsplit)} :
  /\ fragment_index' = o.fragment_index
  /\ character_index' = o.character_index
  /\ char_index_for_last_forced_manual_break' = o.forced
  /\ last' = [kind |-> o.kind, line |-> o.line,
              maximum_width |-> maximum_width,
              start_fragment_index |-> fragment_index,
              start_character_index |-> character_index,
              space_break_hint |-> o.current_line.space_break_hint,
              hyphen_break_hint |-> o.current_line.hyphen_break_hint,
              placed |-> Placed(o.current_line)]
  /\ prev' = IF last.kind = "new" THEN [kind |-> "new"]
             ELSE [kind |-> last.kind, placed |-> last.placed,
                   justify |-> last.kind \in LineKinds /\ last.line.justify]
  /\ returned_text' = returned_text \o Contribution(o)
  /\ UNCHANGED <<styled_text_fragments, size_by_style, justify, print_sh>>
  /\ UNCHANGED table_vars

Next ==
  \E maximum_width \in Widths, wordsplit \in BOOLEAN :
    get_line_of_given_width(maximum_width, wordsplit)

Spec == Init /\ [][Next]_vars

\* the driver used with wordsplit=True on every call
NextWordsplit ==
  \E maximum_width \in Widths : get_line_of_given_width(maximum_width, TRUE)

SpecWordsplit == Init /\ [][NextWordsplit]_vars

\* the driver used with wordsplit=True where no call raises
NextReturning ==
  \E maximum_width \in Widths :
    /\ get_line_of_given_width(maximum_width, TRUE)
    /\ last'.kind # "raise"

SpecReturning == Init /\ [][NextReturning]_vars

\* the driver called again and again with wordsplit=True and one fixed
\* maximum_width, as a caller that fills lines of one width does
NextFixedWidth ==
  \E maximum_width \in Widths :
    /\ IF last.kind = "new" THEN TRUE ELSE last.maximum_width = maximum_width
    /\ get_line_of_given_width(maximum_width, TRUE)

SpecFixedWidth == Init /\ [][NextFixedWidth]_vars /\ WF_vars(NextFixedWidth)

\* ------------------------------------------------- reading the source runs
\* all characters of the input, run after run
SourceText == Flatten(styled_text_fragments)

RECURSIVE Offset(_, _)
\* the number of input characters before cursor position (fi, ci)
Offset(fi, ci) ==
  IF fi = 0 THEN ci
  ELSE Len(styled_text_fragments[fi].characters) + Offset(fi - 1, 0) + ci

\* the input characters from offset a (inclusive) to offset b (exclusive)
Segment(a, b) == SubSeq(SourceText, a + 1, b)

RECURSIVE FlattenStyles(_)
\* the font style of each character of a sequence of fragments, in order
FlattenStyles(fragments) ==
  IF fragments = <<>> THEN <<>>
  ELSE [i \in 1..Len(Head(fragments).characters) |-> Head(fragments).font_style]
       \o FlattenStyles(Tail(fragments))

\* the font style each input character is measured in
SourceStyles == FlattenStyles(styled_text_fragments)

\* where the latest call started and where it left the cursor
StartOffset == Offset(last.start_fragment_index, last.start_character_index)
CursorOffset == Offset(fragment_index, character_index)

\* the latest call returned a TextLine
ReturnedLine == last.kind \in LineKinds

\* the input offset at which the latest returned line ends: the separator
\* that ended it (a space, a soft hyphen, a newline) or, when no separator
\* was consumed, the cursor
LineEndOffset ==
  IF last.kind \in {"space", "auto_space", "auto_hyphen", "newline"}
  THEN CursorOffset - 1
  ELSE CursorOffset

\* the input characters the latest call went over, as a line shows them
VisibleSegment ==
  Without(Segment(StartOffset, LineEndOffset), {SOFT_HYPHEN})

\* the character the latest call started on, and its measured width
StartsOnCharacter == StartOffset < Len(SourceText)
StartCharacter == SourceText[StartOffset + 1]
StartCharacterWidth ==
  get_character_width(StartCharacter, SourceStyles[StartOffset + 1])

RECURSIVE SumWidths(_, _)
\* the measured width of a sequence of characters in one font style
SumWidths(characters, style) ==
  IF characters = <<>> THEN 0
  ELSE SizeOf(size_by_style, Head(characters), style)
       + SumWidths(Tail(characters), style)

RECURSIVE WidthOfFragments(_)
\* the measured width of the characters of a sequence of fragments
WidthOfFragments(fragments) ==
  IF fragments = <<>> THEN 0
  ELSE SumWidths(Head(fragments).characters, Head(fragments).font_style)
       + WidthOfFragments(Tail(fragments))

RECURSIVE KeptWidthFrom(_, _)
\* the measured width of the input characters from cursor position (fi, ci)
\* to the end of the input, soft hyphens not counted
KeptWidthFrom(fi, ci) ==
  IF fi >= Len(styled_text_fragments) THEN 0
  ELSE LET f == styled_text_fragments[fi + 1] IN
       SumWidths(Without(SubSeq(f.characters, ci + 1, Len(f.characters)),
                         {SOFT_HYPHEN}),
                 f.font_style)
       + KeptWidthFrom(fi + 1, 0)

\* the input is one or more soft hyphens and nothing else
OnlySoftHyphens ==
  /\ SourceText # <<>>
  /\ \A i \in 1..Len(SourceText) : SourceText[i] = SOFT_HYPHEN

\* ------------------------------------------------------------------ claims

\* C1: text conservation.  Once the driver (wordsplit=True on every call,
\* print_sh off, no call raised) has returned None, the text of all returned
\* lines, without the hyphens appended at hyphen breaks and with the space
\* consumed at each break put back, is the input text without its newlines
\* and soft hyphens: no other character is dropped, duplicated or reordered.
C1_TextConservation ==
  (last.kind = "none" /\ ~print_sh)
    => returned_text = Without(SourceText, {NEWLINE, SOFT_HYPHEN})

\* C2: the "not enough horizontal space" error is raised only while the line
\* being built in the call is still empty; a call that has placed at least
\* one character never raises.
C2_RaiseOnlyOnEmptyLine ==
  last.kind = "raise" => last.placed = 0

\* the scenario of C3 after its second call: a forced split left the cursor
\* on a character, and the next call raised on that same character
RaisedOnSameCharacter ==
  prev.kind = "forced" /\ last.kind = "raise" /\ last.placed = 0

\* the scenario of C3 at its third call: the call before raised on the
\* character this call started on, and this call's width suffices for it
RetryWithSufficientWidth ==
  /\ prev.kind = "raise" /\ prev.placed = 0
  /\ StartsOnCharacter
  /\ last.maximum_width >= StartCharacterWidth

\* the latest call returned the line that starts where the call started
ReturnedLineFromStart == ReturnedLine /\ LineText(last) = VisibleSegment

C4_WidthBound ==
  (ReturnedLine /\ last.maximum_width >= 0)
    => last.line.text_width <= last.maximum_width

\* C4 witness: a line cut at a hyphen hint that fills the width exactly
C4_Witness ==
  /\ last.kind = "auto_hyphen"
  /\ last.maximum_width >= 0
  /\ last.line.text_width = last.maximum_width

\* C5: with justify=True, the last TextLine returned before the driver starts
\* returning None is not justified.
C5_LastLineNotJustified ==
  (justify /\ last.kind = "none" /\ prev.kind \in LineKinds) => ~prev.justify

\* C6: a returned TextLine with justify = True has at least one space, comes
\* from a driver constructed with justify=True, and was ended by an
\* overflowing space or a rollback: never by a newline, a forced split, the
\* end of the input, or as the empty line of wordsplit=False.
C6_JustifyOnlyWithSpaces ==
  (ReturnedLine /\ last.line.justify)
    => /\ last.line.number_of_spaces_between_words >= 1
       /\ justify
       /\ last.kind \in {"space", "auto_space", "auto_hyphen"}

\* C6 witness: a justified line is returned
C6_Witness == ReturnedLine /\ last.line.justify

\* the hint the latest call cut at, when it ended in a rollback
RolledBack == last.kind \in {"auto_space", "auto_hyphen"}
ChosenHint ==
  IF last.kind = "auto_hyphen" THEN last.hyphen_break_hint
  ELSE last.space_break_hint

\* the input offset of the separator a hint was recorded at
HintOffset(hint) ==
  Offset(hint.original_fragment_index, hint.original_character_index)

\* the measured width of the visible hyphen in the run of a hyphen hint
HyphenWidthAt(hint) ==
  SizeOf(size_by_style, HYPHEN,
         styled_text_fragments[hint.original_fragment_index + 1].font_style)

\* the rule of C7 for which hint a rollback cuts at, and where the cursor
\* resumes: right after the chosen separator
RollbackChoice ==
  /\ ChosenHint # NoHint
  /\ (last.kind = "auto_hyphen")
       <=> /\ last.hyphen_break_hint # NoHint
           /\ \/ last.space_break_hint = NoHint
              \/ last.hyphen_break_hint.width > last.space_break_hint.width
  /\ SourceText[HintOffset(ChosenHint) + 1]
       = (IF last.kind = "auto_hyphen" THEN SOFT_HYPHEN ELSE SPACE)
  /\ fragment_index = ChosenHint.original_fragment_index
  /\ character_index = ChosenHint.original_character_index + 1
  /\ last.line.number_of_spaces_between_words = ChosenHint.number_of_spaces

\* the characters accumulated before the chosen separator
BeforeSeparator ==
  Without(Segment(StartOffset, HintOffset(ChosenHint)), {SOFT_HYPHEN})

\* C7 as stated: a rollback cuts at the hyphen hint only if there is no space
\* hint or the hyphen hint's width is strictly greater, otherwise at the
\* space hint; the line holds exactly the characters accumulated before the
\* chosen separator, with the width and space count recorded at the hint,
\* and the cursor resumes right after the separator.
C7_AsStated ==
  RolledBack =>
    /\ RollbackChoice
    /\ Flatten(last.line.fragments) = BeforeSeparator
    /\ last.line.text_width = ChosenHint.width

\* C7 (amended): as C7_AsStated for a cut at the space hint; a line cut at
\* the hyphen hint holds the characters accumulated before the soft hyphen
\* followed by the visible hyphen, and its width is the width recorded at
\* the hint plus the measured width of that hyphen.
C7_RollbackChoice ==
  RolledBack =>
    /\ RollbackChoice
    /\ last.kind = "auto_space" =>
         /\ Flatten(last.line.fragments) = BeforeSeparator
         /\ last.line.text_width = ChosenHint.width
    /\ last.kind = "auto_hyphen" =>
         /\ Flatten(last.line.fragments) = BeforeSeparator \o <<HYPHEN>>
         /\ last.line.text_width = ChosenHint.width + HyphenWidthAt(ChosenHint)

\* C7 witness: a rollback with both hints recorded, cut at the hyphen hint
C7_Witness ==
  /\ last.kind = "auto_hyphen"
  /\ last.space_break_hint # NoHint
  /\ Len(BeforeSeparator) > 0

\* what C8 says of every returned line (print_sh off): it holds no soft
\* hyphen, soft hyphens add nothing to its width, and it ends with an
\* appended visible hyphen exactly when it was cut at a hyphen hint
SoftHyphensInvisible ==
  (ReturnedLine /\ ~print_sh) =>
    /\ \A i \in 1..Len(Flatten(last.line.fragments)) :
         Flatten(last.line.fragments)[i] # SOFT_HYPHEN
    /\ last.line.text_width = WidthOfFragments(last.line.fragments)
    /\ Flatten(last.line.fragments)
         = VisibleSegment
           \o (IF last.kind = "auto_hyphen" THEN <<HYPHEN>> ELSE <<>>)
    /\ last.kind = "auto_hyphen" =>
         last.line.text_width
           = last.hyphen_break_hint.width + HyphenWidthAt(last.hyphen_break_hint)

C9_ExplicitBreak ==
  /\ last.kind = "newline" =>
       /\ last.line.trailing_nl
       /\ ~last.line.justify
       /\ CursorOffset >= 1
       /\ SourceText[CursorOffset] = NEWLINE
       /\ Flatten(last.line.fragments) = VisibleSegment
  /\ ReturnedLine =>
       /\ last.line.trailing_nl => last.kind = "newline"
       /\ \A i \in 1..Len(Flatten(last.line.fragments)) :
            Flatten(last.line.fragments)[i] # NEWLINE
  /\ (last.kind # "new" /\ StartsOnCharacter
        /\ SourceText[StartOffset + 1] = NEWLINE)
       => last.kind = "newline"

\* C9 witness: justification requested, a line with a space ended by a newline
C9_Witness ==
  /\ last.kind = "newline"
  /\ justify
  /\ last.line.number_of_spaces_between_words >= 1

\* C10: None is returned only with the cursor at the end of all runs; after
\* a call returned None every later call returns None and leaves the cursor
\* unchanged; over an empty run sequence every call returns None.
C10_EndAbsorbing ==
  /\ last.kind = "none" => fragment_index = Len(styled_text_fragments)
  /\ prev.kind = "none" =>
       /\ last.kind = "none"
       /\ fragment_index = last.start_fragment_index
       /\ character_index = last.start_character_index
  /\ styled_text_fragments = <<>> => last.kind \in {"new", "none"}

\* C10 witness: two calls in a row returned None over a non-empty input
C10_Witness ==
  /\ prev.kind = "none"
  /\ last.kind = "none"
  /\ SourceText # <<>>

\* the cursor (fi2, ci2) is at or after the cursor (fi1, ci1), run index first
CursorAtOrAfter(fi2, ci2, fi1, ci1) ==
  fi2 > fi1 \/ (fi2 = fi1 /\ ci2 >= ci1)

\* C11: cursor monotonicity.  After any call (any width, any wordsplit) the
\* cursor (fragment_index, character_index) is lexicographically at or after
\* the cursor before the call, and a rollback to a break hint resumes after
\* the character the call started on, so never on or before a character of
\* an already returned line.
C11_CursorMonotone ==
  last.kind # "new" =>
    /\ CursorAtOrAfter(fragment_index, character_index,
                       last.start_fragment_index, last.start_character_index)
    /\ CursorOffset >= StartOffset
    /\ RolledBack => CursorOffset > StartOffset

\* C11 witness: a rollback to a hint in a call that did not start at the
\* beginning of the input
C11_Witness ==
  /\ RolledBack
  /\ StartOffset > 0
  /\ last.placed > Len(Flatten(last.line.fragments))

\* the empty TextLine
EmptyTextLine ==
  [fragments |-> <<>>, text_width |-> 0, number_of_spaces_between_words |-> 0,
   justify |-> FALSE, trailing_nl |-> FALSE]

\* C12: with wordsplit=False, a call in which a character other than a space
\* overflows while no break hint exists returns the empty line (no
\* fragments, width 0, no spaces, justify False, trailing_nl False) and
\* leaves the cursor where it was when the call started; no call with
\* wordsplit=False raises, in whatever state it is made, so repeating the
\* call never fails.
C12_WordsplitOffKeepsCursor ==
  /\ last.kind = "line_full" =>
       /\ last.line = EmptyTextLine
       /\ fragment_index = last.start_fragment_index
       /\ character_index = last.start_character_index
  /\ \A maximum_width \in Widths :
       \E o \in {get_line(maximum_width, FALSE)} :
         /\ o.kind # "raise"
         /\ o.kind = "line_full" =>
              /\ o.line = EmptyTextLine
              /\ o.fragment_index = fragment_index
              /\ o.character_index = character_index
              /\ o.current_line.space_break_hint = NoHint
              /\ o.current_line.hyphen_break_hint = NoHint

\* C12 witness: two calls in a row came back with the empty line of a full
\* line, the second after characters had been placed, in a driver asked to
\* justify
C12_Witness ==
  /\ prev.kind = "line_full"
  /\ last.kind = "line_full"
  /\ last.placed > 0
  /\ justify

(***************************************************************************)
(* The table engine of PyFPDF (fpdf/table.py): Table, Row, Cell and the    *)
(* border policies TableBordersLayout, as a state machine whose operations *)
(* are Table.row(), Row.cell() and Table.render().                         *)
(*                                                                         *)
(* Lengths are exact rationals <<numerator, denominator>> in lowest terms  *)
(* (Python computes them in floating point; rounding is not modelled).     *)
(* Row and column indices are 0-based as in the source.                    *)
(***************************************************************************)

\* ---------------------------------------------------------------- numbers
RECURSIVE GCD(_, _)
GCD(a, b) == IF b = 0 THEN a ELSE GCD(b, a % b)

Abs(n) == IF n < 0 THEN 0 - n ELSE n

\* the rational n / d (d # 0) in lowest terms with a positive denominator
Rat(n, d) ==
  LET g == GCD(Abs(n), Abs(d))
      sgn == IF d < 0 THEN 0 - 1 ELSE 1
  IN  <<sgn * (n \div g), sgn * (d \div g)>>

Num(n) == <<n, 1>>
RAdd(a, b) == Rat(a[1] * b[2] + b[1] * a[2], a[2] * b[2])
RSub(a, b) == Rat(a[1] * b[2] - b[1] * a[2], a[2] * b[2])
RMul(a, b) == Rat(a[1] * b[1], a[2] * b[2])
RDiv(a, b) == Rat(a[1] * b[2], a[2] * b[1])
RLess(a, b) == a[1] * b[2] < b[1] * a[2]
RMax(a, b) == IF RLess(a, b) THEN b ELSE a

RECURSIVE RSum(_)
\* sum(...) of a sequence of numbers
RSum(values) ==
  IF values = <<>> THEN Num(0) ELSE RAdd(Head(values), RSum(Tail(values)))

\* --------------------------------------------------------- border policies
\* TableCellStyle(left, bottom, right, top): each edge drawn or not
TableCellStyle(left, bottom, right, top) ==
  [left |-> left, bottom |-> bottom, right |-> right, top |-> top]

\* TableBordersLayout.ALL.cell_style_getter
ALL(row_num, col_num, num_heading_rows, num_rows, num_cols) ==
  TableCellStyle(TRUE, TRUE, TRUE, TRUE)

\* TableBordersLayout.NONE.cell_style_getter
NONE(row_num, col_num, num_heading_rows, num_rows, num_cols) ==
  TableCellStyle(FALSE, FALSE, FALSE, FALSE)

\* TableBordersLayout.INTERNAL.cell_style_getter
INTERNAL(row_num, col_num, num_heading_rows, num_rows, num_cols) ==
  TableCellStyle(col_num > 0,
                 col_num < num_cols - 1,
                 row_num < num_rows - 1,
                 row_num > 0)

\* a variant of MINIMAL that also gives the first row a top edge
MINIMAL_top_on_first_row(row_num, col_num, num_heading_rows, num_rows, num_cols) ==
  TableCellStyle(col_num > 0,
                 row_num < num_heading_rows,
                 col_num < num_cols - 1,
                 row_num <= num_heading_rows)

\* TableBordersLayout.MINIMAL.cell_style_getter
MINIMAL(row_num, col_num, num_heading_rows, num_rows, num_cols) ==
  TableCellStyle(col_num > 0,
                 row_num < num_heading_rows,
                 col_num < num_cols - 1,
                 0 < row_num /\ row_num <= num_heading_rows)

\* TableBordersLayout.HORIZONTAL_LINES.cell_style_getter
HORIZONTAL_LINES(row_num, col_num, num_heading_rows, num_rows, num_cols) ==
  TableCellStyle(FALSE, row_num < num_heading_rows - 1, FALSE, row_num > 0)

\* TableBordersLayout.NO_HORIZONTAL_LINES.cell_style_getter
NO_HORIZONTAL_LINES(row_num, col_num, num_heading_rows, num_rows, num_cols) ==
  TableCellStyle(TRUE, row_num = num_rows - 1, TRUE,
                 row_num <= num_heading_rows)

\* TableBordersLayout.SINGLE_TOP_LINE.cell_style_getter
SINGLE_TOP_LINE(row_num, col_num, num_heading_rows, num_rows, num_cols) ==
  TableCellStyle(FALSE, row_num <= num_heading_rows - 1, FALSE, FALSE)

\* the built-in members of TableBordersLayout, by name
TableBordersLayout ==
  {"ALL", "NONE", "INTERNAL", "MINIMAL", "HORIZONTAL_LINES",
   "NO_HORIZONTAL_LINES", "SINGLE_TOP_LINE"}

\* borders_layout.cell_style_getter(row_num, col_num, ...)
cell_style_getter(borders_layout, row_num, col_num, num_heading_rows, num_rows, num_cols) ==
  CASE borders_layout = "ALL" ->
         ALL(row_num, col_num, num_heading_rows, num_rows, num_cols)
    [] borders_layout = "NONE" ->
         NONE(row_num, col_num, num_heading_rows, num_rows, num_cols)
    [] borders_layout = "INTERNAL" ->
         INTERNAL(row_num, col_num, num_heading_rows, num_rows, num_cols)
    [] borders_layout = "MINIMAL" ->
         MINIMAL(row_num, col_num, num_heading_rows, num_rows, num_cols)
    [] borders_layout = "HORIZONTAL_LINES" ->
         HORIZONTAL_LINES(row_num, col_num, num_heading_rows, num_rows, num_cols)
    [] borders_layout = "NO_HORIZONTAL_LINES" ->
         NO_HORIZONTAL_LINES(row_num, col_num, num_heading_rows, num_rows, num_cols)
    [] borders_layout = "SINGLE_TOP_LINE" ->
         SINGLE_TOP_LINE(row_num, col_num, num_heading_rows, num_rows, num_cols)

\* TableBorderStyle.from_bool(should_draw).should_render(): whether
\* TableCellStyle.get_draw_commands strokes an edge
should_render(should_draw) == should_draw

\* the edges TableCellStyle.draw_cell_border strokes for a cell style
draw_cell_border(style) ==
  [left |-> should_render(style.left), bottom |-> should_render(style.bottom),
   right |-> should_render(style.right), top |-> should_render(style.top)]

\* ------------------------------------------------------- rows and cells
\* Cell: the text is kept as the height FPDF.multi_cell reports for it
\* (Num(0) for the empty text), the image as the height FPDF.image renders
\* it at (Num(0) for no image); v_align is "None" or a VAlign value
Cell(text, v_align, img, img_fill_width, colspan) ==
  [text |-> text, v_align |-> v_align, img |-> img,
   img_fill_width |-> img_fill_width, colspan |-> colspan]

RECURSIVE cols_count(_)
\* Row.cols_count
cols_count(cells) ==
  IF cells = <<>> THEN 0 ELSE Head(cells).colspan + cols_count(Tail(cells))

\* Row.column_indices: the start column of each cell (<<0>> for no cells)
column_indices(cells) ==
  IF cells = <<>> THEN <<0>>
  ELSE [k \in 1..Len(cells) |-> cols_count(SubSeq(cells, 1, k - 1))]

\* self.rows[i].column_indices[-1]
last_column_index(cells) == column_indices(cells)[Len(column_indices(cells))]

\* Table.get_cell_border(i, j): the letters L/R/T/B of the borders to draw;
\* the return value 1 stands for all four letters and 0 for none, as
\* FPDF.multi_cell reads its border argument
get_cell_border(i, j) ==
  LET is_rightmost_column == j = last_column_index(table.rows[i + 1])
      rows_count == Len(table.rows)
      border == {"L", "R", "T", "B"}
  IN
  CASE table.borders_layout = "ALL" -> border
    [] table.borders_layout = "NONE" -> {}
    [] table.borders_layout = "INTERNAL" ->
         border \ ((IF i = 0 THEN {"T"} ELSE {})
                    \cup (IF i = rows_count - 1 THEN {"B"} ELSE {})
                    \cup (IF j = 0 THEN {"L"} ELSE {})
                    \cup (IF is_rightmost_column THEN {"R"} ELSE {}))
    [] table.borders_layout = "MINIMAL" ->
         border \ ((IF i = 0 \/ i > table.num_heading_rows \/ rows_count = 1
                     THEN {"T"} ELSE {})
                    \cup (IF i > table.num_heading_rows - 1 THEN {"B"} ELSE {})
                    \cup (IF j = 0 THEN {"L"} ELSE {})
                    \cup (IF is_rightmost_column THEN {"R"} ELSE {}))
    [] table.borders_layout = "NO_HORIZONTAL_LINES" ->
         border \ ((IF i > table.num_heading_rows THEN {"T"} ELSE {})
                    \cup (IF i # rows_count - 1 THEN {"B"} ELSE {}))
    [] table.borders_layout = "HORIZONTAL_LINES" ->
         IF rows_count = 1 THEN {}
         ELSE {"T", "B"} \ (IF i = 0 THEN {"T"}
                            ELSE IF i = rows_count - 1 THEN {"B"} ELSE {})
    [] table.borders_layout = "SINGLE_TOP_LINE" ->
         IF rows_count = 1 THEN {}
         ELSE IF i < table.num_heading_rows THEN {"B"} ELSE {}

\* ------------------------------------------------------------ column widths
\* "not self._col_widths": None, the number 0 and the empty sequence
col_widths_absent(col_widths) ==
  \/ col_widths.kind = "None"
  \/ col_widths.kind = "Number" /\ col_widths.value = Num(0)
  \/ col_widths.kind = "Sequence" /\ col_widths.values = <<>>

RECURSIVE col_width_loop(_, _, _, _, _)
\* the loop "for k in range(j, j + colspan)" of _get_col_width, from k on;
\* width is the table width without the gutters between columns
col_width_loop(k, j, colspan, width, col_width) ==
  IF k >= j + colspan THEN [raised |-> "None", value |-> col_width]
  ELSE IF k >= Len(table.col_widths.values)
  THEN [raised |-> "IndexError"]
  ELSE LET col_ratio == RDiv(table.col_widths.values[k + 1],
                             RSum(table.col_widths.values))
           added == RAdd(col_width, RMul(col_ratio, width))
       IN  col_width_loop(k + 1, j, colspan, width,
                          IF k # j THEN RAdd(added, table.gutter_width)
                          ELSE added)

\* a variant of get_col_width that adds a gutter for every spanned column
get_col_width_gutter_per_column(i, j, colspan) ==
  LET count == cols_count(table.rows[i + 1])
      width == RSub(table.width, RMul(Num(count - 1), table.gutter_width))
      gutter_within_cell == RMax(RMul(Num(colspan), table.gutter_width), Num(0))
  IN
  IF col_widths_absent(table.col_widths)
  THEN [raised |-> "None",
        value |-> RAdd(RMul(Num(colspan), RDiv(width, Num(count))),
                       gutter_within_cell)]
  ELSE IF table.col_widths.kind = "Number"
  THEN [raised |-> "None",
        value |-> RAdd(RMul(Num(colspan), table.col_widths.value),
                       gutter_within_cell)]
  ELSE IF j >= Len(table.col_widths.values)
  THEN [raised |-> "ValueError", column |-> j + 1, row |-> i + 1]
  ELSE col_width_loop(j, j, colspan, width, Num(0))

\* a variant of get_col_width that gives a cell reaching past the end of
\* the col_widths sequence its equal share instead of raising
get_col_width_equal_share_when_missing(i, j, colspan) ==
  LET count == cols_count(table.rows[i + 1])
      width == RSub(table.width, RMul(Num(count - 1), table.gutter_width))
      gutter_within_cell ==
        RMax(RMul(Num(colspan - 1), table.gutter_width), Num(0))
  IN
  IF \/ col_widths_absent(table.col_widths)
     \/ table.col_widths.kind = "Sequence"
          /\ j + colspan > Len(table.col_widths.values)
  THEN [raised |-> "None",
        value |-> RAdd(RMul(Num(colspan), RDiv(width, Num(count))),
                       gutter_within_cell)]
  ELSE IF table.col_widths.kind = "Number"
  THEN [raised |-> "None",
        value |-> RAdd(RMul(Num(colspan), table.col_widths.value),
                       gutter_within_cell)]
  ELSE col_width_loop(j, j, colspan, width, Num(0))

\* a variant of get_col_width that shares out the whole table width, the
\* gutters between columns included
get_col_width_of_whole_width(i, j, colspan) ==
  LET count == cols_count(table.rows[i + 1])
      width == table.width
      gutter_within_cell ==
        RMax(RMul(Num(colspan - 1), table.gutter_width), Num(0))
  IN
  IF col_widths_absent(table.col_widths)
  THEN [raised |-> "None",
        value |-> RAdd(RMul(Num(colspan), RDiv(width, Num(count))),
                       gutter_within_cell)]
  ELSE IF table.col_widths.kind = "Number"
  THEN [raised |-> "None",
        value |-> RAdd(RMul(Num(colspan), table.col_widths.value),
                       gutter_within_cell)]
  ELSE IF j >= Len(table.col_widths.values)
  THEN [raised |-> "ValueError", column |-> j + 1, row |-> i + 1]
  ELSE col_width_loop(j, j, colspan, width, Num(0))

\* Table._get_col_width(i, j, colspan): the width, or the exception raised
get_col_width(i, j, colspan) ==
  LET count == cols_count(table.rows[i + 1])
      width == RSub(table.width, RMul(Num(count - 1), table.gutter_width))
      gutter_within_cell ==
        RMax(RMul(Num(colspan - 1), table.gutter_width), Num(0))
  IN
  IF col_widths_absent(table.col_widths)
  THEN [raised |-> "None",
        value |-> RAdd(RMul(Num(colspan), RDiv(width, Num(count))),
                       gutter_within_cell)]
  ELSE IF table.col_widths.kind = "Number"
  THEN [raised |-> "None",
        value |-> RAdd(RMul(Num(colspan), table.col_widths.value),
                       gutter_within_cell)]
  ELSE IF j >= Len(table.col_widths.values)
  THEN [raised |-> "ValueError", column |-> j + 1, row |-> i + 1]
  ELSE col_width_loop(j, j, colspan, width, Num(0))

\* ------------------------------------------------------ the host (FPDF)
\* FPDF.epw: the effective page width
epw(p) == RSub(RSub(p.w, p.l_margin), p.r_margin)

\* FPDF.will_page_break(height): y + height > page_break_trigger
will_page_break(p, height) == RLess(p.page_break_trigger, RAdd(p.y, height))

\* FPDF.multi_cell(..., output=PAGE_BREAK | HEIGHT) for a cell text: whether
\* writing it from p.y runs past the page, and the height it takes
multi_cell(p, text) ==
  [page_break |-> will_page_break(p, text), height |-> text]

\* FPDF._perform_page_break(): a new page, the cursor at its top
perform_page_break(p) == [p EXCEPT !.page = @ + 1, !.y = p.t_margin]

\* FPDF.set_y(y): also moves x back to the left margin
set_y(p, y) == [p EXCEPT !.y = y, !.x = p.l_margin]

\* FPDF.ln(h)
ln(p, h) == [p EXCEPT !.y = RAdd(@, h), !.x = p.l_margin]

\* ----------------------------------------------------------- measuring
\* a variant of text_offset that pushes middle-aligned text to the bottom
text_offset_middle_as_bottom(v_align, cell_height, actual_text_height) ==
  IF v_align \in {"M", "B"} THEN RSub(cell_height, actual_text_height)
  ELSE Num(0)

\* the vertical offset of a cell's text in a cell of height cell_height
text_offset(v_align, cell_height, actual_text_height) ==
  IF v_align = "M"
  THEN RDiv(RSub(cell_height, actual_text_height), Num(2))
  ELSE IF v_align = "B" THEN RSub(cell_height, actual_text_height)
  ELSE Num(0)

\* v_align = cell.v_align if cell.v_align else self._v_align
effective_v_align(cell) ==
  IF cell.v_align # "None" THEN cell.v_align ELSE table.v_align

\* img_height of _render_table_cell for a cell with an image (no padding)
image_height_of(p, cell) == RAdd(cell.img, p.line_width)

\* Table._render_table_cell(i, j, cell) without cell_height_info: the height
\* query, (do_pagebreak, img_height, cell_height)
render_table_cell_query(p, i, j, cell) ==
  LET has_img == cell.img # Num(0)
      has_text == cell.text # Num(0)
      img_height == IF has_img THEN image_height_of(p, cell) ELSE Num(0)
      page_break_image ==
        has_img /\ RLess(p.page_break_trigger, RAdd(img_height, p.y))
      written == multi_cell(p, cell.text)
  IN  [do_pagebreak |-> (has_text /\ written.page_break) \/ page_break_image,
       img_height |-> img_height,
       cell_height |-> IF has_text THEN written.height ELSE Num(0)]

\* RowLayoutInfo
RowLayoutInfo(height, triggers_page_jump, rendered_height) ==
  [height |-> height, triggers_page_jump |-> triggers_page_jump,
   rendered_height |-> rendered_height]

RECURSIVE RMaxOf(_)
\* max(...) of a non-empty sequence of numbers
RMaxOf(values) ==
  IF Len(values) = 1 THEN values[1]
  ELSE RMax(values[1], RMaxOf(Tail(values)))

\* Table._get_row_layout_info(i) with the host as it stands in p.  The
\* measurement runs inside FPDF._disable_writing(), which puts the cursor
\* back where it was, so it leaves p as it is.  rendered_height is indexed
\* by cell here (the source indexes it by the cell's start column).
get_row_layout_info(p, i) ==
  LET cells == table.rows[i + 1]
      indices == column_indices(cells)
      query == [k \in 1..Len(cells) |->
                  render_table_cell_query(p, i, indices[k], cells[k])]
      dictated_heights_per_cell ==
        [k \in 1..Len(cells) |->
           IF cells[k].img_fill_width THEN query[k].img_height
           ELSE query[k].cell_height]
      image_heights_per_cell == [k \in 1..Len(cells) |-> query[k].img_height]
      row_height == IF cells # <<>> THEN RMaxOf(dictated_heights_per_cell)
                    ELSE Num(0)
  IN  RowLayoutInfo(
        IF row_height # Num(0) THEN row_height
        ELSE IF cells # <<>> THEN RMaxOf(image_heights_per_cell) ELSE Num(0),
        \E k \in 1..Len(cells) : query[k].do_pagebreak,
        [k \in 1..Len(cells) |->
           RMax(image_heights_per_cell[k], dictated_heights_per_cell[k])])

\* ------------------------------------------------------------ committing
\* Table._render_table_cell(i, j, cell, cell_height_info=info): draw the
\* border, then the text.  st holds the host and what has been drawn; k is
\* the cell's position in its row.
render_table_cell(st, i, j, k, cell, info, cell_x_positions) ==
  LET col_width == get_col_width(i, j, cell.colspan).value
      x1 == RAdd(st.pdf.l_margin, cell_x_positions[j + 1])
      y1 == st.pdf.y
      style == cell_style_getter(table.borders_layout, i, j,
                                 table.num_heading_rows, Len(table.rows),
                                 last_column_index(table.rows[i + 1]) + 1)
      has_text == cell.text # Num(0)
      dy == IF has_text
            THEN text_offset(effective_v_align(cell), info.height,
                             info.rendered_height[k])
            ELSE Num(0)
  IN  [st EXCEPT
         !.pdf.x = IF has_text THEN RAdd(x1, col_width) ELSE x1,
         !.pdf.y = IF has_text THEN RSub(RAdd(y1, dy), dy) ELSE y1,
         !.drawn = Append(@,
           [row |-> i, col |-> j, page |-> st.pdf.page,
            x1 |-> x1, y1 |-> y1,
            x2 |-> RAdd(x1, col_width), y2 |-> RAdd(y1, info.height),
            edges |-> draw_cell_border(style),
            has_text |-> has_text, dy |-> dy,
            text_height |-> info.rendered_height[k],
            v_align |-> effective_v_align(cell),
            y_after |-> IF has_text THEN RSub(RAdd(y1, dy), dy) ELSE y1])]

RECURSIVE render_cells(_, _, _, _, _, _)
\* the loop over row.cells of _render_table_row, from cell k on; y is the
\* remembered ordinate
render_cells(st, i, k, info, cell_x_positions, y) ==
  LET cells == table.rows[i + 1] IN
  IF k > Len(cells) THEN st
  ELSE LET drawn == render_table_cell(st, i, column_indices(cells)[k], k,
                                      cells[k], info, cell_x_positions)
       IN  render_cells([drawn EXCEPT !.pdf = set_y(@, y)], i, k + 1, info,
                        cell_x_positions, y)

\* Table._render_table_row(i, row_layout_info, cell_x_positions); replay
\* tells the call that repeats a heading from the call for the current row
render_table_row(st, i, info, replay, cell_x_positions) ==
  LET cells_done == render_cells(st, i, 1, info, cell_x_positions, st.pdf.y) IN
  [cells_done EXCEPT
     !.pdf = ln(@, info.height),
     !.committed = Append(@, [row |-> i, page |-> st.pdf.page, y |-> st.pdf.y,
                              height |-> info.height, replay |-> replay])]

RECURSIVE repeat_headings(_, _, _)
\* "for row_idx in range(self._num_heading_rows)", from row_idx on;
\* self.rows[row_idx] raises IndexError in a table of fewer rows
repeat_headings(st, row_idx, cell_x_positions) ==
  IF row_idx >= table.num_heading_rows THEN st
  ELSE IF row_idx >= Len(table.rows)
  THEN [st EXCEPT !.raised = "IndexError"]
  ELSE repeat_headings(
         render_table_row(st, row_idx, get_row_layout_info(st.pdf, row_idx),
                          TRUE, cell_x_positions),
         row_idx + 1, cell_x_positions)

\* a variant of before_row that breaks the page without repeating headings
before_row_no_headings(st, i, info, cell_x_positions) ==
  IF info.triggers_page_jump
  THEN [st EXCEPT !.pdf = perform_page_break(@),
                  !.jumps = Append(@, i)]
  ELSE IF i # 0 /\ table.gutter_height # Num(0)
  THEN [st EXCEPT !.pdf.y = RAdd(@, table.gutter_height)]
  ELSE st

\* what the rows loop of render() does before it renders row i: a page
\* break and the headings again, or the gutter between rows
before_row(st, i, info, cell_x_positions) ==
  IF info.triggers_page_jump
  THEN repeat_headings([st EXCEPT !.pdf = perform_page_break(@),
                                  !.jumps = Append(@, i)],
                       0, cell_x_positions)
  ELSE IF i # 0 /\ table.gutter_height # Num(0)
  THEN [st EXCEPT !.pdf.y = RAdd(@, table.gutter_height)]
  ELSE st

RECURSIVE rows_loop(_, _, _)
\* "for i in range(len(self.rows))" of render(), from row i on
rows_loop(st, i, cell_x_positions) ==
  IF i >= Len(table.rows) THEN st
  ELSE LET row_layout_info == get_row_layout_info(st.pdf, i)
           ready == before_row(st, i, row_layout_info, cell_x_positions)
       IN  IF ready.raised # "None" THEN ready
           ELSE rows_loop(
                  render_table_row(ready, i, row_layout_info, FALSE,
                                   cell_x_positions),
                  i + 1, cell_x_positions)

\* ------------------------------------------------------------- render()
\* fonts.CORE_FONTS, as (family, style) keys: the core family and its bold
CORE_FONTS == {<<"helvetica", "">>, <<"helvetica", "B">>}

\* DEFAULT_HEADINGS_STYLE = FontFace(emphasis="BOLD")
DEFAULT_HEADINGS_STYLE == [kind |-> "FontFace", emphasis |-> "B"]

\* headings_style=None
NoFontFace == [kind |-> "None"]

\* the sanity checks render() starts with: the exception raised, or "None"
sanity_checks(p) ==
  IF RLess(epw(p), table.width) THEN "ValueError: width"
  ELSE IF table.align = "JUSTIFY" THEN "ValueError: align"
  ELSE IF table.num_heading_rows > 0 /\ table.headings_style = NoFontFace
  THEN "ValueError: headings_style"
  ELSE IF /\ table.num_heading_rows > 0
          /\ table.headings_style.emphasis # "None"
          /\ <<p.font_family, table.headings_style.emphasis>>
               \notin (CORE_FONTS \cup p.fonts)
  THEN "FPDFException: font emphasis"
  ELSE IF \E i \in 2..Len(table.rows) :
            cols_count(table.rows[i]) # cols_count(table.rows[1])
  THEN "FPDFException: column count"
  ELSE "None"

\* "Defining table global horizontal position" of render()
horizontal_position(p) ==
  IF table.align = "CENTER"
  THEN LET m == RDiv(RSub(p.w, table.width), Num(2)) IN
       [p EXCEPT !.l_margin = m, !.x = m]
  ELSE IF table.align = "RIGHT"
  THEN LET m == RSub(RSub(p.w, p.r_margin), table.width) IN
       [p EXCEPT !.l_margin = m, !.x = m]
  ELSE IF p.x # p.l_margin THEN [p EXCEPT !.l_margin = p.x]
  ELSE p

RECURSIVE cell_x_positions_from(_, _, _)
\* "Pre-Compute the relative x-positions of the individual columns", from
\* column i on: the positions, or the exception _get_col_width raised
cell_x_positions_from(i, xx, positions) ==
  IF i >= cols_count(table.rows[1])
  THEN [raised |-> "None", value |-> positions]
  ELSE LET col_width == get_col_width(0, i, 1) IN
       IF col_width.raised # "None" THEN col_width
       ELSE LET xx1 == RAdd(RAdd(xx, col_width.value), table.gutter_width) IN
            cell_x_positions_from(i + 1, xx1, Append(positions, xx1))

\* the cell_x_positions of render()
precomputed_cell_x_positions ==
  IF table.rows = <<>> THEN [raised |-> "None", value |-> <<Num(0)>>]
  ELSE cell_x_positions_from(0, Num(0), <<Num(0)>>)

\* what a call of render() found and left behind
Rendered(status, p, st) ==
  [status |-> status, before |-> p, committed |-> st.committed,
   drawn |-> st.drawn, jumps |-> st.jumps]

\* nothing drawn yet on host p
NothingDrawn(p) ==
  [pdf |-> p, committed |-> <<>>, drawn |-> <<>>, jumps |-> <<>>,
   raised |-> "None"]

\* "Restoring altered FPDF settings" of render()
restore_settings(p, prev_l_margin) ==
  [p EXCEPT !.l_margin = prev_l_margin, !.x = prev_l_margin]

\* Table.render() on host p: the host afterwards, the exception raised
\* ("None" for a normal return) and what was drawn
render_on(p) ==
  LET failed == sanity_checks(p) IN
  IF failed # "None"
  THEN [pdf |-> p, raised |-> failed, st |-> NothingDrawn(p)]
  ELSE
    LET prev_l_margin == p.l_margin
        placed == horizontal_position(p)
        cell_x_positions == precomputed_cell_x_positions
    IN
    IF cell_x_positions.raised # "None"
    THEN [pdf |-> placed, raised |-> "ValueError: col_widths",
          column |-> cell_x_positions.column, row |-> cell_x_positions.row,
          st |-> NothingDrawn(placed)]
    ELSE
      LET st == rows_loop(NothingDrawn(placed), 0, cell_x_positions.value) IN
      IF st.raised # "None"
      THEN [pdf |-> st.pdf, raised |-> st.raised, st |-> st]
      ELSE [pdf |-> restore_settings(st.pdf, prev_l_margin),
            raised |-> "None", st |-> st]

\* ----------------------------------------------------- the table's inputs
\* the FPDF instance a table is created on: a page 10 wide with margins of
\* 1, the cursor at the left margin on top of page 1, 6 units of height
\* before the page break, the core font selected
Host ==
  [w |-> Num(10), l_margin |-> Num(1), r_margin |-> Num(1), t_margin |-> Num(0),
   x |-> Num(1), y |-> Num(0), page |-> 1, page_break_trigger |-> Num(6),
   line_width |-> Num(0), font_family |-> "helvetica", fonts |-> {}]

\* Table.__init__ with its default arguments, on host p
Table(p) ==
  [align |-> "CENTER", v_align |-> "M", borders_layout |-> "ALL",
   col_widths |-> [kind |-> "None"], gutter_height |-> Num(0),
   gutter_width |-> Num(0), headings_style |-> DEFAULT_HEADINGS_STYLE,
   width |-> epw(p), num_heading_rows |-> 1, rows |-> <<>>]

\* the col_widths arguments tried: none, a number, sequences of 0 to 4 entries
ColWidthsChoices ==
  {[kind |-> "None"], [kind |-> "Number", value |-> Num(2)]}
  \cup {[kind |-> "Sequence", values |-> v] :
          v \in {<<>>, <<Num(1)>>, <<Num(1), Num(2)>>,
                 <<Num(1), Num(2), Num(1)>>,
                 <<Num(1), Num(1), Num(1), Num(1)>>}}

\* tables that differ in their border policy and number of heading rows
BorderTables ==
  {[Table(Host) EXCEPT !.borders_layout = b, !.num_heading_rows = n] :
     b \in TableBordersLayout, n \in 0..2}

\* tables that differ in position, column widths and gutter, and tables
\* render() rejects: justified, wider than the page, or with heading rows
\* whose style or font is missing
RenderTables ==
  {[Table(Host) EXCEPT !.align = a, !.width = Num(6), !.col_widths = c,
                       !.gutter_width = Num(g)] :
     a \in {"LEFT", "CENTER", "RIGHT"}, c \in ColWidthsChoices, g \in {0, 1}}
  \cup {[Table(Host) EXCEPT !.align = "JUSTIFY"],
        [Table(Host) EXCEPT !.width = Num(9)]}
  \cup {[Table(Host) EXCEPT !.headings_style = h, !.num_heading_rows = n] :
          h \in {NoFontFace, DEFAULT_HEADINGS_STYLE}, n \in 0..1}

\* the hosts RenderTables are rendered on: the cursor at the left margin or
\* right of it, the core font or an added font that has no bold style
RenderHosts ==
  {[Host EXCEPT !.x = Num(h[1]), !.font_family = h[2], !.fonts = h[3]] :
     h \in {<<1, "helvetica", {}>>, <<2, "helvetica", {}>>,
            <<1, "custom", {<<"custom", "">>}>>}}

\* tables that differ in heading rows and the gutter between rows
PageTables ==
  {[Table(Host) EXCEPT !.num_heading_rows = n, !.gutter_height = Num(g)] :
     n \in 0..2, g \in {0, 1}}

\* the hosts PageTables are rendered on: the cursor at different heights
PageHosts == {[Host EXCEPT !.y = Num(y)] : y \in {0, 3, 5}}

\* the arguments of Row.cell tried: rowspan is 0 when the caller does not
\* pass that keyword
CellArguments(texts, colspans, rowspans) ==
  {[text |-> Num(t), v_align |-> "None", img |-> Num(0),
    img_fill_width |-> FALSE, colspan |-> c, rowspan |-> r] :
     t \in texts, c \in colspans, r \in rowspans}

BorderCells == CellArguments({1}, {1, 2}, {0})
RenderCells == CellArguments({1}, {1, 2}, {0})
PageCells == CellArguments({1, 2}, {1}, {0}) \cup CellArguments({2}, {1}, {2})

\* tables that differ in their vertical alignment
AlignTables == {[Table(Host) EXCEPT !.v_align = v] : v \in {"T", "M", "B"}}

\* the cells tried for vertical alignment.  One column wide: a text of two
\* lines.  Two columns wide: a text of one line, aligned as the table says
\* or on its own, or flagged img_fill_width; an image three lines high,
\* scaled to the row or filling the width
AlignCells ==
  {[text |-> Num(2), v_align |-> "None", img |-> Num(0),
    img_fill_width |-> FALSE, colspan |-> 1, rowspan |-> 0]}
  \cup {[text |-> Num(1), v_align |-> v, img |-> Num(0),
         img_fill_width |-> FALSE, colspan |-> 2, rowspan |-> 0] :
          v \in {"None", "T", "B"}}
  \cup {[text |-> Num(1), v_align |-> "None", img |-> Num(0),
         img_fill_width |-> TRUE, colspan |-> 2, rowspan |-> 0]}
  \cup {[text |-> Num(0), v_align |-> "None", img |-> Num(3),
         img_fill_width |-> f, colspan |-> 2, rowspan |-> 0] : f \in BOOLEAN}

\* ----------------------------------------------------------- state machine
\* the line breaker's variables while only a table is at work
NoLineBreak ==
  /\ styled_text_fragments = <<>>
  /\ size_by_style = "unit"
  /\ justify = FALSE
  /\ print_sh = FALSE
  /\ fragment_index = 0
  /\ character_index = 0
  /\ char_index_for_last_forced_manual_break = 0 - 1
  /\ last = [kind |-> "new"]
  /\ prev = [kind |-> "new"]
  /\ returned_text = <<>>

\* a table being built: no call has raised and render() has not run
Building ==
  /\ raised = NoException
  /\ rendering = NotRendered

\* Table.row() with no cells: a new empty Row
row ==
  /\ Building
  /\ Len(table.rows) < MaxRows
  /\ table' = [table EXCEPT !.rows = Append(@, <<>>)]
  /\ UNCHANGED <<pdf, raised, rendering, line_break_vars>>

\* Row.cell(...) on the row Table.row() returned last.  The method has no
\* rowspan parameter, so a call that passes one raises TypeError; text
\* together with an image raises NotImplementedError.
cell(arguments) ==
  /\ Building
  /\ table.rows # <<>>
  /\ cols_count(table.rows[Len(table.rows)]) + arguments.colspan <= MaxCols
  /\ IF arguments.rowspan # 0
     THEN /\ raised' = [kind |-> "TypeError", arguments |-> arguments]
          /\ UNCHANGED table
     ELSE IF arguments.text # Num(0) /\ arguments.img # Num(0)
     THEN /\ raised' = [kind |-> "NotImplementedError", arguments |-> arguments]
          /\ UNCHANGED table
     ELSE /\ table' = [table EXCEPT
                         !.rows[Len(table.rows)] =
                           Append(@, Cell(arguments.text, arguments.v_align,
                                          arguments.img,
                                          arguments.img_fill_width,
                                          arguments.colspan))]
          /\ UNCHANGED raised
  /\ UNCHANGED <<pdf, rendering, line_break_vars>>

\* Table.render()
render ==
  /\ Building
  /\ \E done \in {render_on(pdf)} :
       /\ pdf' = done.pdf
       /\ raised' = IF done.raised = "ValueError: col_widths"
                    THEN [kind |-> done.raised, column |-> done.column,
                          row |-> done.row]
                    ELSE [kind |-> done.raised]
       /\ rendering' = Rendered(IF done.raised = "None" THEN "returned"
                                ELSE "raised", pdf, done.st)
  /\ UNCHANGED <<table, line_break_vars>>

InitBorders ==
  /\ NoLineBreak
  /\ pdf = Host
  /\ table \in BorderTables
  /\ Building

NextBorders == row \/ (\E arguments \in BorderCells : cell(arguments)) \/ render

SpecBorders == InitBorders /\ [][NextBorders]_vars

InitRender ==
  /\ NoLineBreak
  /\ pdf \in RenderHosts
  /\ table \in RenderTables
  /\ Building

NextRender == row \/ (\E arguments \in RenderCells : cell(arguments)) \/ render

SpecRender == InitRender /\ [][NextRender]_vars

InitPages ==
  /\ NoLineBreak
  /\ pdf \in PageHosts
  /\ table \in PageTables
  /\ Building

NextPages == row \/ (\E arguments \in PageCells : cell(arguments)) \/ render

SpecPages == InitPages /\ [][NextPages]_vars

InitAlign ==
  /\ NoLineBreak
  /\ pdf = Host
  /\ table \in AlignTables
  /\ Building

NextAlign == row \/ (\E arguments \in AlignCells : cell(arguments)) \/ render

SpecAlign == InitAlign /\ [][NextAlign]_vars

\* ------------------------------------------------------ claims on tables
\* render() returned normally
Returned == rendering.status = "returned"

\* the cells render() drew, in drawing order
DrawnCells == IF rendering = NotRendered THEN <<>> ELSE rendering.drawn

\* the index of the table's last row, and the start column of the last cell
\* of row i
LastRow == Len(table.rows) - 1
LastColumn(i) == last_column_index(table.rows[i + 1])

\* the cells render() drew while the table's border policy is borders_layout
DrawnUnder(borders_layout) ==
  IF table.borders_layout = borders_layout
  THEN {DrawnCells[n] : n \in 1..Len(DrawnCells)}
  ELSE {}

\* C13: under INTERNAL a drawn cell has its top edge iff row > 0, its bottom
\* edge iff row < last row, its left edge iff col > 0 and its right edge iff
\* col < last column, for every cell position and table size.
C13_InternalBorders ==
  \A d \in DrawnUnder("INTERNAL") :
    /\ d.edges.top <=> d.row > 0
    /\ d.edges.bottom <=> d.row < LastRow
    /\ d.edges.left <=> d.col > 0
    /\ d.edges.right <=> d.col < LastColumn(d.row)

\* C14 as stated: under MINIMAL the top edge is present iff row = 0 or
\* row <= num_heading_rows, the bottom edge iff row < num_heading_rows, left
\* iff col > 0 and right iff col < last column.
C14_AsStated ==
  \A d \in DrawnUnder("MINIMAL") :
    /\ d.edges.top <=> (d.row = 0 \/ d.row <= table.num_heading_rows)
    /\ d.edges.bottom <=> d.row < table.num_heading_rows
    /\ d.edges.left <=> d.col > 0
    /\ d.edges.right <=> d.col < LastColumn(d.row)

\* C14: under MINIMAL the top edge is present iff 0 < row <=
\* num_heading_rows (never on row 0), the bottom edge iff row <
\* num_heading_rows, left iff col > 0 and right iff col < last column; with
\* 3 rows and 1 heading row the top edge is drawn on row 1 only and the
\* bottom edge on row 0 only.
C14_MinimalBorders ==
  \A d \in DrawnUnder("MINIMAL") :
    /\ d.edges.top <=> (0 < d.row /\ d.row <= table.num_heading_rows)
    /\ d.edges.bottom <=> d.row < table.num_heading_rows
    /\ d.edges.left <=> d.col > 0
    /\ d.edges.right <=> d.col < LastColumn(d.row)
    /\ (Len(table.rows) = 3 /\ table.num_heading_rows = 1) =>
         /\ d.edges.top <=> d.row = 1
         /\ d.edges.bottom <=> d.row = 0

\* C14 witness: a MINIMAL table of 3 rows with 1 heading row was rendered,
\* a cell drawn in each row and two in the first
C14_Witness ==
  /\ Returned
  /\ table.borders_layout = "MINIMAL"
  /\ Len(table.rows) = 3
  /\ table.num_heading_rows = 1
  /\ \A i \in 0..2 : \E d \in DrawnUnder("MINIMAL") : d.row = i
  /\ \E d \in DrawnUnder("MINIMAL") : d.row = 0 /\ d.col > 0

\* C15: under HORIZONTAL_LINES a drawn cell has its top edge iff row > 0 and
\* its bottom edge iff row < last row, whatever the number of heading rows,
\* and never a left or right edge.
C15_HorizontalLines ==
  \A d \in DrawnUnder("HORIZONTAL_LINES") :
    /\ d.edges.top <=> d.row > 0
    /\ d.edges.bottom <=> d.row < LastRow
    /\ ~d.edges.left
    /\ ~d.edges.right

\* the configuration errors of render(): the table is wider than the page,
\* JUSTIFY alignment, no headings style, no heading font, rows that differ
\* in their column count, a col_widths sequence that is too short
ConfigurationErrors ==
  {"ValueError: width", "ValueError: align", "ValueError: headings_style",
   "FPDFException: font emphasis", "FPDFException: column count",
   "ValueError: col_widths"}

\* C16: whenever render() returns normally or raises a configuration error,
\* the host's l_margin and x are what they were before the call.
C16_RenderRestoresHost ==
  (rendering # NotRendered
     /\ (Returned \/ raised.kind \in ConfigurationErrors)) =>
    /\ pdf.l_margin = rendering.before.l_margin
    /\ pdf.x = rendering.before.x

\* the rows render() committed, in order, heading repetitions included
Committed == IF rendering = NotRendered THEN <<>> ELSE rendering.committed

\* the positions in Committed of the commits of the rows loop itself
MainPositions == {p \in 1..Len(Committed) : ~Committed[p].replay}

\* the rows whose measurement reported a page jump
JumpRows ==
  IF rendering = NotRendered THEN {}
  ELSE {rendering.jumps[n] : n \in 1..Len(rendering.jumps)}

\* the page and the ordinate the host was at when commit p began
PageBefore(p) ==
  IF p = 1 THEN rendering.before.page ELSE Committed[p - 1].page
OrdinateBefore(p) ==
  IF p = 1 THEN rendering.before.y
  ELSE RAdd(Committed[p - 1].y, Committed[p - 1].height)

\* the heading rows were committed again, in order, on a new page right
\* before the commit at position p
HeadingsRepeatedBefore(p) ==
  LET h == table.num_heading_rows IN
  /\ p > h
  /\ \A k \in 0..(h - 1) :
       /\ Committed[p - h + k].replay
       /\ Committed[p - h + k].row = k
       /\ Committed[p - h + k].page = Committed[p].page
  /\ Committed[p].page = PageBefore(p - h) + 1
  /\ Committed[p - h].y = rendering.before.t_margin

\* a row of this height fits on the page below ordinate y
Fits(y, height) ==
  ~RLess(rendering.before.page_break_trigger, RAdd(y, height))

\* C17: render() commits the rows in strictly ascending order, every row
\* that is not a heading exactly once; whenever the measurement of row i
\* reports a page jump (the row does not fit under the cursor), the page is
\* broken and heading rows 0..num_heading_rows-1 are committed in order on
\* the new page before row i is committed; no other commit repeats a row.
C17_PageBreakAndHeadings ==
  /\ \A p \in MainPositions :
       /\ Committed[p].row = Cardinality({q \in MainPositions : q < p})
       /\ IF Committed[p].row \in JumpRows
          THEN /\ HeadingsRepeatedBefore(p)
               /\ ~Fits(OrdinateBefore(p - table.num_heading_rows),
                        Committed[p].height)
          ELSE /\ Committed[p].page = PageBefore(p)
               /\ p > 1 => ~Committed[p - 1].replay
               /\ Fits(OrdinateBefore(p), Committed[p].height)
  /\ \A p \in 1..Len(Committed) :
       Committed[p].replay => Committed[p].row < table.num_heading_rows
  /\ Returned =>
       /\ Cardinality(MainPositions) = Len(table.rows)
       /\ \A i \in 0..LastRow :
            i >= table.num_heading_rows =>
              Cardinality({p \in 1..Len(Committed) : Committed[p].row = i}) = 1

\* C17 witness: render() returned after a row below two heading rows did
\* not fit on the page
C17_Witness ==
  /\ Returned
  /\ table.num_heading_rows = 2
  /\ \E i \in JumpRows : i >= 2
  /\ Len(Committed) = Len(table.rows) + 2

\* the cells of row i as (position in the row, start column, colspan)
CellsOfRow(i) ==
  {<<k, column_indices(table.rows[i + 1])[k], table.rows[i + 1][k].colspan>> :
     k \in 1..Len(table.rows[i + 1])}

RECURSIVE SumOfColumns(_, _, _)
\* the widths of the single columns j..j+c-1 of row i, added up
SumOfColumns(i, j, c) ==
  IF c = 0 THEN Num(0)
  ELSE RAdd(get_col_width(i, j, 1).value, SumOfColumns(i, j + 1, c - 1))

\* _get_col_width returns a width for each single column j..j+c-1 of row i
ColumnsHaveWidths(i, j, c) ==
  \A k \in j..(j + c - 1) : get_col_width(i, k, 1).raised = "None"

\* the width of a cell of c columns from column j of row i is the sum of
\* the widths of its columns plus the c - 1 gutters between them
SpanIsSumOfColumns(i, j, c) ==
  /\ get_col_width(i, j, c).raised = "None"
  /\ get_col_width(i, j, c).value =
       RAdd(SumOfColumns(i, j, c), RMul(Num(c - 1), table.gutter_width))

\* C18: in every column-width mode (none, a number, a sequence) the width
\* _get_col_width returns for a cell at column j with colspan c is the sum of
\* the widths of the single columns j..j+c-1 plus exactly c - 1 times
\* gutter_width, and render() draws the cell that wide; a colspan=2 cell of
\* a 2-column table takes the two columns' shares plus one gutter, which is
\* the whole table width when the shares are proportional.
C18_ColspanWidth ==
  /\ \A i \in 0..LastRow :
       \A cl \in CellsOfRow(i) :
         ColumnsHaveWidths(i, cl[2], cl[3]) =>
           /\ SpanIsSumOfColumns(i, cl[2], cl[3])
           /\ (cl[3] = 2 /\ cols_count(table.rows[i + 1]) = 2
                 /\ table.col_widths.kind # "Number"
                 /\ (table.col_widths.kind = "Sequence"
                       => Len(table.col_widths.values) \in {0, 2})) =>
                get_col_width(i, cl[2], cl[3]).value = table.width
  /\ \A n \in 1..Len(DrawnCells) :
       LET d == DrawnCells[n] IN
       \E cl \in CellsOfRow(d.row) :
         /\ cl[2] = d.col
         /\ RSub(d.x2, d.x1) =
              RAdd(SumOfColumns(d.row, d.col, cl[3]),
                   RMul(Num(cl[3] - 1), table.gutter_width))

\* C18 witness: render() drew a cell of two columns in a table with a gutter
\* between columns and a col_widths sequence of unequal entries
C18_Witness ==
  /\ Returned
  /\ table.gutter_width = Num(1)
  /\ table.col_widths.kind = "Sequence"
  /\ Len(table.col_widths.values) = 3
  /\ \E n \in 1..Len(DrawnCells) :
       \E cl \in CellsOfRow(DrawnCells[n].row) :
         cl[2] = DrawnCells[n].col /\ cl[2] = 1 /\ cl[3] = 2

\* col_widths is a sequence with fewer entries than the table has columns
ShortColWidths ==
  /\ table.col_widths.kind = "Sequence"
  /\ \E i \in 0..LastRow :
       Len(table.col_widths.values) < cols_count(table.rows[i + 1])

\* render() was called and raised the ValueError that names the first
\* column without a width, having drawn nothing
RaisedMissingColumn ==
  /\ raised.kind = "ValueError: col_widths"
  /\ raised.column = Len(table.col_widths.values) + 1
  /\ raised.row = 1
  /\ rendering.status = "raised"
  /\ DrawnCells = <<>>
  /\ Committed = <<>>

\* C19 as stated: render() of every table whose col_widths sequence has
\* fewer entries than the table has columns, and which passes the sanity
\* checks render() starts with, raises the ValueError naming the missing
\* column and draws no cell.
C19_AsStated ==
  (rendering # NotRendered /\ ShortColWidths
     /\ sanity_checks(rendering.before) = "None") => RaisedMissingColumn

\* C19: render() of a table whose col_widths is a non-empty sequence with
\* fewer entries than the table has columns, and which passes the sanity
\* checks render() starts with, raises the ValueError naming the first
\* column without a width (on row 1) before any cell is drawn, also when
\* that column is covered by a cell with colspan > 1; an empty sequence
\* counts as no col_widths at all and render() returns.
C19_ShortColWidths ==
  /\ (rendering # NotRendered /\ ShortColWidths
        /\ table.col_widths.values # <<>>
        /\ sanity_checks(rendering.before) = "None") => RaisedMissingColumn
  /\ (rendering # NotRendered /\ ShortColWidths
        /\ table.col_widths.values = <<>>
        /\ sanity_checks(rendering.before) = "None") => Returned

\* C19 witness: render() raised on a table whose only width is for column 1
\* and whose first row is one cell of two columns
C19_Witness ==
  /\ RaisedMissingColumn
  /\ Len(table.col_widths.values) = 1
  /\ Len(table.rows[1]) = 1
  /\ table.rows[1][1].colspan = 2
  /\ raised.column = 2

\* Row.cell was asked for a cell spanning 2 rows and raised TypeError
RowspanRejected ==
  /\ raised.kind = "TypeError"
  /\ raised.arguments.rowspan = 2

\* C20: a cell spanning 2 rows is taken into the table, and when its content
\* needs more height than the two rows measured on their own, both rows get
\* extra padding so that together they are as high as the cell needs.  A
\* table can hold such a cell only if Row.cell accepts the request.
C20_RowspanReconciled == ~RowspanRejected

\* the letters L/R/T/B of the edges of a drawn cell
EdgeLetters(edges) ==
  (IF edges.left THEN {"L"} ELSE {}) \cup (IF edges.right THEN {"R"} ELSE {})
  \cup (IF edges.top THEN {"T"} ELSE {})
  \cup (IF edges.bottom THEN {"B"} ELSE {})

\* get_cell_border reports for each cell drawn under borders_layout the
\* edges render() drew
BordersAgreeUnder(borders_layout) ==
  \A d \in DrawnUnder(borders_layout) :
    get_cell_border(d.row, d.col) = EdgeLetters(d.edges)

\* C21: for each of the seven built-in border policies and every cell render()
\* draws, the edges Table.get_cell_border(i, j) reports are the edges the
\* policy's cell_style_getter made render() draw for that cell.
C21_GetCellBorderAgrees ==
  \A borders_layout \in TableBordersLayout : BordersAgreeUnder(borders_layout)

\* the latest call ended on an overflowing character with no break hint and
\* wordsplit on: it raised or returned the forced split
ForcedSplitCase == last.kind \in {"forced", "raise"}

\* the call before failed at the position the latest call overflowed on: it
\* ended in a forced split, which left the cursor on its overflowing
\* character, and the latest call placed nothing before overflowing
PreviousCallFailedHere == prev.kind = "forced" /\ last.placed = 0

\* the latest call returned the line as accumulated from its start, not
\* justified and without trailing newline, the cursor left on a character
\* other than a space that does not fit after the line
ReturnedAsAccumulated ==
  /\ last.kind = "forced"
  /\ Flatten(last.line.fragments) = Segment(StartOffset, CursorOffset)
  /\ ~last.line.justify
  /\ ~last.line.trailing_nl
  /\ last.line.text_width = WidthOfFragments(last.line.fragments)
  /\ last.maximum_width >= 0 => last.line.text_width <= last.maximum_width
  /\ CursorOffset < Len(SourceText)
  /\ SourceText[CursorOffset + 1] \notin {SPACE, NEWLINE}
  /\ last.line.text_width
       + get_character_width(SourceText[CursorOffset + 1],
                             SourceStyles[CursorOffset + 1])
       > last.maximum_width

\* C22 (wordsplit=True): a call in which a character other than a space
\* overflows while no break hint exists returns the line as accumulated (the
\* longest prefix from its start that fits, justify False, trailing_nl
\* False) with the cursor on the overflowing character, unless the call
\* before failed at this position; and the line the next call returns
\* starts with exactly that character (a soft hyphen, which no line shows,
\* left aside).
C22_ForcedSplit ==
  /\ (ForcedSplitCase /\ ~PreviousCallFailedHere) => ReturnedAsAccumulated
  /\ (prev.kind = "forced" /\ ReturnedLine /\ StartCharacter # SOFT_HYPHEN) =>
       /\ Flatten(last.line.fragments) # <<>>
       /\ Flatten(last.line.fragments)[1] = StartCharacter

\* C23: a call during which the runs end returns a TextLine holding
\* everything accumulated whenever at least one character was accumulated in
\* its line, and None only if no character at all was accumulated, for every
\* width table, characters of measured width 0 included.
C23_ExhaustedReturnsAccumulated ==
  /\ last.kind = "none" => last.placed = 0
  /\ last.kind = "exhausted" =>
       /\ last.placed >= 1
       /\ CursorOffset = Len(SourceText)
       /\ Flatten(last.line.fragments) = VisibleSegment
       /\ ~last.line.justify
       /\ ~last.line.trailing_nl

RECURSIVE FragmentOfCharacter(_, _)
\* the fragment that holds character number k (from 1) of a sequence of
\* fragments
FragmentOfCharacter(fragments, k) ==
  IF k <= Len(Head(fragments).characters) THEN Head(fragments)
  ELSE FragmentOfCharacter(Tail(fragments),
                           k - Len(Head(fragments).characters))

RECURSIVE VisibleOffsets(_, _)
\* the input offsets from a (inclusive) to b (exclusive) that do not hold a
\* soft hyphen, in order
VisibleOffsets(a, b) ==
  IF a >= b THEN <<>>
  ELSE (IF SourceText[a + 1] = SOFT_HYPHEN THEN <<>> ELSE <<a>>)
       \o VisibleOffsets(a + 1, b)

\* the input offsets of the characters of the latest returned line
LineOffsets == VisibleOffsets(StartOffset, LineEndOffset)

\* C24: in every returned line each character sits in a fragment whose five
\* style attributes (font family, size, style tag, underline, stretch) are
\* those of the source run the character came from; the hyphen appended at
\* a hyphen break carries the attributes of the soft hyphen's run.
C24_FragmentsKeepStyle ==
  (ReturnedLine /\ ~print_sh) =>
    /\ \A k \in 1..Len(LineOffsets) :
         StyleOf(FragmentOfCharacter(last.line.fragments, k))
           = StyleOf(FragmentOfCharacter(styled_text_fragments,
                                         LineOffsets[k] + 1))
    /\ last.kind = "auto_hyphen" =>
         StyleOf(FragmentOfCharacter(last.line.fragments,
                                     Len(LineOffsets) + 1))
           = StyleOf(styled_text_fragments[
                       last.hyphen_break_hint.original_fragment_index + 1])

\* the committed row a drawn cell belongs to: the commit of the cell's row
\* that follows the drawing of the cell
HeightOfRowOf(d) == RSub(d.y2, d.y1)

RECURSIVE CountOf(_, _)
\* how often a token occurs in a text
CountOf(text, token) ==
  IF text = <<>> THEN 0
  ELSE (IF Head(text) = token THEN 1 ELSE 0) + CountOf(Tail(text), token)

\* C26: for every returned TextLine, text_width is the sum of the measured
\* widths of the characters in its fragments, each measured in its
\* fragment's font_style, and number_of_spaces_between_words is the number
\* of space characters in its fragments, also after a rollback and after a
\* hyphen was put in place of a soft hyphen.
C26_LineAccounting ==
  ReturnedLine =>
    /\ last.line.text_width = WidthOfFragments(last.line.fragments)
    /\ last.line.number_of_spaces_between_words
         = CountOf(Flatten(last.line.fragments), SPACE)

\* C26 witness: a line with a space in it that was cut at a hyphen hint
\* after a later character had been placed
C26_Witness ==
  /\ last.kind = "auto_hyphen"
  /\ last.line.number_of_spaces_between_words >= 1
  /\ last.line.text_width = 2

\* the latest call returned None or raised FPDFException
CallsEnded == last.kind \in {"none", "raise"}

\* the latest call returned a line and left the cursor where it was
ReturnedLineInPlace ==
  /\ ReturnedLine
  /\ fragment_index = last.start_fragment_index
  /\ character_index = last.start_character_index

\* the call before the latest returned a line and left the cursor where it
\* was: only a forced split that had placed nothing does so
PreviousReturnedLineInPlace == prev.kind = "forced" /\ prev.placed = 0

\* C27: calling get_line_of_given_width again and again with wordsplit=True
\* and one maximum_width reaches a call that returns None or raises
\* FPDFException; a call that returns a line and leaves the cursor where it
\* was is a forced split of an empty line, and no two consecutive calls do so.
C27_Termination ==
  /\ <>CallsEnded
  /\ [](ReturnedLineInPlace => (last.kind = "forced" /\ last.placed = 0))
  /\ []~(PreviousReturnedLineInPlace /\ ReturnedLineInPlace)

\* C27 witness: after a forced split and the rest of the text, both returned
\* for the same width, a call returned None
C27_Witness ==
  /\ last.kind = "none"
  /\ prev.kind = "exhausted"
  /\ Len(returned_text) >= 2
  /\ last.maximum_width = 1
  /\ size_by_style = "unit"
  /\ \A i \in 1..Len(SourceText) : SourceText[i] = "a"

\* C28: render() commits no row twice on one page, that is between two
\* consecutive page breaks or before the first one; a heading row that
\* itself triggers the page jump is not committed both as a repeated
\* heading and as the current row.
C28_NoRowTwiceOnPage ==
  \A p \in 1..Len(Committed) :
    \A q \in 1..Len(Committed) :
      (p < q /\ Committed[p].page = Committed[q].page)
        => Committed[p].row # Committed[q].row

\* the widths of all columns of row i plus the gutters between them
WidthOfAllColumns(i) ==
  LET n == cols_count(table.rows[i + 1]) IN
  RAdd(SumOfColumns(i, 0, n), RMul(Num(n - 1), table.gutter_width))

\* the columns of row i fill the table: their widths and the gutters between
\* them add up to the table width, and every drawn last cell of the row has
\* its right edge at the left edge of the row's first cell plus that width
RowFillsWidth(i) ==
  /\ WidthOfAllColumns(i) = table.width
  /\ \A n \in 1..Len(DrawnCells) :
       (DrawnCells[n].row = i /\ DrawnCells[n].col = LastColumn(i)) =>
         \E m \in 1..n :
           /\ DrawnCells[m].row = i
           /\ DrawnCells[m].col = 0
           /\ DrawnCells[m].page = DrawnCells[n].page
           /\ DrawnCells[m].y1 = DrawnCells[n].y1
           /\ DrawnCells[n].x2 = RAdd(DrawnCells[m].x1, table.width)

\* C29 as stated: when col_widths is absent or a sequence with at least as
\* many entries as there are columns, the columns of every row fill the
\* table width.
C29_AsStated ==
  \A i \in 0..LastRow :
    (/\ table.rows[i + 1] # <<>>
     /\ \/ col_widths_absent(table.col_widths)
        \/ /\ table.col_widths.kind = "Sequence"
           /\ Len(table.col_widths.values) >= cols_count(table.rows[i + 1]))
      => RowFillsWidth(i)

\* C29: when col_widths is absent or a sequence with exactly as many entries
\* as there are columns, the widths of all columns plus the gutter_width
\* between adjacent columns add up to the table width, and the right edge of
\* the last cell of every row lies at the table's left edge plus its width;
\* with more entries than columns the columns fall short of the width.
C29_ColumnsFillWidth ==
  \A i \in 0..LastRow :
    /\ (/\ table.rows[i + 1] # <<>>
        /\ \/ col_widths_absent(table.col_widths)
           \/ /\ table.col_widths.kind = "Sequence"
              /\ Len(table.col_widths.values) = cols_count(table.rows[i + 1]))
         => RowFillsWidth(i)
    /\ (/\ table.rows[i + 1] # <<>>
        /\ table.col_widths.kind = "Sequence"
        /\ Len(table.col_widths.values) > cols_count(table.rows[i + 1]))
         => RLess(WidthOfAllColumns(i), table.width)

\* C29 witness: render() drew a row of a cell of one column and a cell of
\* two columns, with a gutter between columns and three unequal col_widths
C29_Witness ==
  /\ Returned
  /\ table.gutter_width = Num(1)
  /\ table.col_widths.kind = "Sequence"
  /\ Len(table.col_widths.values) = 3
  /\ \E n \in 1..Len(DrawnCells) :
       /\ DrawnCells[n].col = 1
       /\ DrawnCells[n].col = LastColumn(DrawnCells[n].row)
       /\ RSub(DrawnCells[n].x2, DrawnCells[n].x1) = Num(4)

\* C30: every fragment of every TextLine returned by get_line_of_given_width
\* holds at least one character, also after a rollback to a space that was
\* the first character of a new style and when a soft hyphen is the only
\* character of its style in the line.
C30_NoEmptyFragment ==
  ReturnedLine =>
    \A f \in 1..Len(last.line.fragments) :
      last.line.fragments[f].characters # <<>>

====
